---- MODULE Spec2Model ----
(***************************************************************************)
(* A model of scripts/migrate-to-biome.js: one run of main() against the   *)
(* files of the project root.  The disk state (legacy config files, the    *)
(* backup directory, package.json, biome.json, lockfiles) and the locals   *)
(* of main() are the variables; every step of main() is one action, and    *)
(* every filesystem or child-process call that can throw is a              *)
(* nondeterministic choice between its success and its exception.          *)
(***************************************************************************)
EXTENDS Integers, Sequences, FiniteSets, TLC

\* ------------------------------------------------------------------ bounds
\* How many names of each CONFIG_FILES list may exist on disk initially.
MaxNames == 1
\* How many of the PACKAGES_TO_REMOVE names the initial manifest may declare.
MaxPkgs == 1
\* How many lockfiles may exist initially.
MaxLocks == 3
\* How many times another process may create or delete a legacy config file
\* during a run (specification SpecEnv only).
MaxEnv == 2
\* How many times in succession the script is run on the same project
\* (specification SpecRerun only).
MaxRuns == 2
\* How many directories deep the current working directory may be
\* (specification SpecLocate only); depth 0 is the filesystem root.
MaxDepth == 3

\* --------------------------------------------------------------- constants
CONFIG_FILES ==
    [eslint   |-> <<".eslintrc", ".eslintrc.js", ".eslintrc.cjs",
                    ".eslintrc.json", ".eslintrc.yml", ".eslintrc.yaml">>,
     prettier |-> <<".prettierrc", ".prettierrc.js", ".prettierrc.cjs",
                    ".prettierrc.json", ".prettierrc.yml", ".prettierrc.yaml",
                    "prettier.config.js", "prettier.config.cjs">>]

PACKAGES_TO_REMOVE ==
    <<"eslint", "@typescript-eslint/parser", "@typescript-eslint/eslint-plugin",
      "eslint-config-prettier", "eslint-plugin-prettier", "prettier">>

EslintSentinel == "package.json (eslintConfig field)"
PrettierSentinel == "package.json (prettier field)"

ScriptKeys == {"lint", "format", "format:check", "check", "check:fix"}

\* The five entries updatePackageJson overwrites, with their commands.
scriptUpdates ==
    [key \in ScriptKeys |->
        CASE key = "lint" -> "biome lint ."
          [] key = "format" -> "biome format --write ."
          [] key = "format:check" -> "biome format ."
          [] key = "check" -> "biome check ."
          [] key = "check:fix" -> "biome check --write ."]

\* One script the tool does not know, to observe what it leaves alone.
OtherScript == "test"
AllScripts == ScriptKeys \cup {OtherScript}

BiomePackage == "@biomejs/biome"

Range(s) == {s[i] : i \in 1..Len(s)}

AllNames == Range(CONFIG_FILES.eslint) \cup Range(CONFIG_FILES.prettier)

\* A file that does not exist; an existing file's content is <<name, version>>.
Absent == <<>>

Min(a, b) == IF a < b THEN a ELSE b

\* The names that may exist when the run starts.
InitNames ==
    {CONFIG_FILES.eslint[i] : i \in 1..Min(MaxNames, Len(CONFIG_FILES.eslint))}
    \cup
    {CONFIG_FILES.prettier[i] : i \in 1..Min(MaxNames, Len(CONFIG_FILES.prettier))}

InitPkgs == {PACKAGES_TO_REMOVE[i] : i \in 1..Min(MaxPkgs, Len(PACKAGES_TO_REMOVE))}

ProbedLockfiles == {"pnpm-lock.yaml", "yarn.lock", "bun.lockb"}

VARIABLES
    files,          \* ProjectRoot: legacy config name -> content or Absent
    backupDir,      \* whether .biome-migration-backup exists
    backupFiles,    \* the backup directory: name -> content or Absent
    manifest,       \* package.json on disk
    biome,          \* biome.json on disk: "absent", "custom" or "default"
    lockfiles,      \* the lockfiles present in ProjectRoot
    pc,             \* the position of main()
    exitCode,       \* the process exit status (meaningful once pc = "exited")
    configs,        \* main's `configs`: [eslint, prettier], sequences of entries
    backedUp,       \* main's `backedUp`, the BackupRecord's list
    packageManager, \* main's `packageManager`
    steps,          \* history: the steps begun, in order
    failed,         \* history: the steps that threw or whose command failed
    calls,          \* history: the external commands invoked, in order
    report,         \* history: the kinds of message printed
    unlinked,       \* history: the files unlinked by removeConfigFiles
    copyThrew,      \* history: the files whose copyFileSync threw
    unlinkThrew,    \* history: the files whose unlinkSync threw
    pre,            \* history: the disk state when the run started
    envLeft,        \* how many more times another process may touch a legacy file
    runs,           \* history: the exit status of each earlier run on this project
    manifestWrites, \* history: what this run wrote to package.json, in order
    removedFields,  \* main's `removedFields`
    platform,       \* "posix" or "win32": what the path module and process.cwd() follow
    cwd,            \* process.cwd(), as its depth below the filesystem root
    pkgDirs,        \* the depths, other than cwd, of the directories holding a package.json
    dir,            \* findRootDir's `dir`
    rootDir,        \* <<d>> once findRootDir has returned d, <<>> until then
    other,          \* the locals of a second run of the script that is not running now
    skill,          \* validate-skill.js: the SKILL.md file it is given
    vpc,            \* validate-skill.js: the position of validateSkillMd
    lineNo,         \* validate-skill.js: how many frontmatter lines the parser has read
    metadata,       \* validateSkillMd's `metadata`: key -> string or array
    currentArray,   \* validateSkillMd's `currentArray`: <<>> for null, <<key>> for the
                    \* array stored under that key
    errors,         \* validateSkillMd's `errors`
    warnings,       \* validateSkillMd's `warnings`
    exitStatus      \* the exit status of validate-skill.js, "none" while it runs

vars == <<files, backupDir, backupFiles, manifest, biome, lockfiles, pc, exitCode,
          configs, backedUp, packageManager, steps, failed, calls, report,
          unlinked, copyThrew, unlinkThrew, pre, envLeft, runs, manifestWrites,
          removedFields, platform, cwd, pkgDirs, dir, rootDir, other,
          skill, vpc, lineNo, metadata, currentArray, errors, warnings, exitStatus>>

validator == <<skill, vpc, lineNo, metadata, currentArray, errors, warnings, exitStatus>>

locator == <<platform, cwd, pkgDirs, dir, rootDir>>

disk == <<files, backupDir, backupFiles, manifest, biome, lockfiles>>

\* ---------------------------------------------------------------- manifest
\* A field of package.json as the code tests it: missing, present with a
\* falsy value (null, false, 0, ""), or present with a truthy value.
FieldValues == {"absent", "falsy", "truthy"}

Truthy(v) == v = "truthy"

NoScripts == [k \in AllScripts |-> "absent"]

\* package.json: kind "ok" parses; "malformed" makes JSON.parse throw,
\* "unreadable" makes readFileSync throw, "missing" fails existsSync.
\* devDependencies and dependencies hold the names declared; emptyVersions
\* holds the declared names whose version string is "" (any version), which
\* the code's truthiness test takes for undeclared.
Manifest(kind, e, p, s, dev, deps, empty) ==
    [kind |-> kind, eslintConfig |-> e, prettier |-> p, scripts |-> s,
     devDependencies |-> dev, dependencies |-> deps, emptyVersions |-> empty]

NoManifest(kind) == Manifest(kind, "absent", "absent", NoScripts, {}, {}, {})

InitScripts ==
    {NoScripts,
     [k \in AllScripts |-> IF k = "lint" THEN "eslint ."
                           ELSE IF k = OtherScript THEN "jest" ELSE "absent"]}

InitManifests ==
    {NoManifest(k) : k \in {"missing", "malformed", "unreadable"}}
    \cup
    {Manifest("ok", e, p, s, IF prod THEN {} ELSE d, IF prod THEN d ELSE {},
              IF empty THEN d ELSE {}) :
        e \in FieldValues, p \in FieldValues, s \in InitScripts,
        d \in SUBSET InitPkgs, prod \in BOOLEAN, empty \in BOOLEAN}

\* -------------------------------------------------------------------- Init
InitMigration(touches) ==
    /\ envLeft = touches
    /\ \E present \in SUBSET InitNames, stale \in BOOLEAN :
          /\ files = [f \in AllNames |-> IF f \in present THEN <<f, "orig">> ELSE Absent]
          /\ backupDir = stale
          /\ backupFiles =
                [f \in AllNames |-> IF stale /\ f \in present THEN <<f, "stale">> ELSE Absent]
    /\ manifest \in InitManifests
    /\ biome \in {"absent", "custom"}
    /\ lockfiles \in {l \in SUBSET ProbedLockfiles : Cardinality(l) <= MaxLocks}
    /\ pc = "start"
    /\ exitCode = 0
    /\ configs = [eslint |-> <<>>, prettier |-> <<>>]
    /\ backedUp = <<>>
    /\ packageManager = "unknown"
    /\ steps = <<>>
    /\ failed = {}
    /\ calls = <<>>
    /\ report = {}
    /\ unlinked = {}
    /\ copyThrew = {}
    /\ unlinkThrew = {}
    /\ runs = <<>>
    /\ manifestWrites = <<>>
    /\ removedFields = <<>>
    /\ pre = [files |-> files, backupDir |-> backupDir, backupFiles |-> backupFiles,
              manifest |-> manifest, biome |-> biome, lockfiles |-> lockfiles]

\* ------------------------------------------------------------------- main
\* An exception that reaches main().catch: the message and process.exit(1).
Throw(step) ==
    /\ pc' = "exited"
    /\ exitCode' = 1
    /\ failed' = failed \cup {step}
    /\ report' = report \cup {"migration-failed"}

Begin(step) == steps' = Append(steps, step)

\* main() with the removal of the files ahead of the removal of the packages.
StepAfter_Swapped(step) ==
    CASE step = "locate" -> "detect"
      [] step = "detect" -> "backup"
      [] step = "backup" -> "probe"
      [] step = "probe" -> "install"
      [] step = "install" -> "writeBiome"
      [] step = "writeBiome" -> "updateManifest"
      [] step = "updateManifest" -> "removeFiles"
      [] step = "removeFiles" -> "removeDeps"
      [] step = "removeDeps" -> "summary"
      [] step = "summary" -> "exited"

\* main() with the removal of the files ahead of the rewrite of package.json.
StepAfter_FilesBeforeManifest(step) ==
    CASE step = "locate" -> "detect"
      [] step = "detect" -> "backup"
      [] step = "backup" -> "probe"
      [] step = "probe" -> "install"
      [] step = "install" -> "writeBiome"
      [] step = "writeBiome" -> "removeFiles"
      [] step = "removeFiles" -> "updateManifest"
      [] step = "updateManifest" -> "removeDeps"
      [] step = "removeDeps" -> "summary"
      [] step = "summary" -> "exited"

\* The statement of main() that follows a step which returned normally.
StepAfter(step) ==
    CASE step = "locate" -> "detect"
      [] step = "detect" -> "backup"
      [] step = "backup" -> "probe"
      [] step = "probe" -> "install"
      [] step = "install" -> "writeBiome"
      [] step = "writeBiome" -> "updateManifest"
      [] step = "updateManifest" -> "removeDeps"
      [] step = "removeDeps" -> "removeFiles"
      [] step = "removeFiles" -> "summary"
      [] step = "summary" -> "exited"

\* ----------------------------------------------------------- findRootDir
\* fs.existsSync(path.join(d, 'package.json')): `manifest` is the package.json
\* of the current working directory.
hasPackageJson(d) == IF d = cwd THEN manifest.kind # "missing" ELSE d \in pkgDirs

\* path.dirname: the parent directory; the root is its own parent.
dirname(d) == IF d = 0 THEN 0 ELSE d - 1

\* dir !== '/': the root of a POSIX system is '/', that of a drive of a
\* Windows system is 'C:\', which no comparison with '/' recognises.
LoopTest(p, d) == p = "win32" \/ d # 0

\* One iteration of the while loop of findRootDir.
findRootDirLook ==
    /\ pc = "start"
    /\ rootDir = <<>>
    /\ LoopTest(platform, dir)
    /\ IF hasPackageJson(dir)
       THEN /\ rootDir' = <<dir>>
            /\ UNCHANGED dir
       ELSE /\ dir' = dirname(dir)
            /\ UNCHANGED rootDir
    /\ UNCHANGED <<disk, pc, exitCode, configs, backedUp, packageManager, steps, failed,
                   calls, report, unlinked, copyThrew, unlinkThrew, pre, envLeft, runs,
                   manifestWrites, removedFields, platform, cwd, pkgDirs, other, validator>>

\* The loop of findRootDir has ended: return process.cwd().
findRootDirFallback ==
    /\ pc = "start"
    /\ rootDir = <<>>
    /\ ~LoopTest(platform, dir)
    /\ rootDir' = <<cwd>>
    /\ UNCHANGED <<disk, pc, exitCode, configs, backedUp, packageManager, steps, failed,
                   calls, report, unlinked, copyThrew, unlinkThrew, pre, envLeft, runs,
                   manifestWrites, removedFields, platform, cwd, pkgDirs, dir, other, validator>>

\* main() receives the directory the rest of the run works in.  The model's
\* disk variables are the content of the current working directory, which is
\* the directory returned when no ancestor holds a package.json.
Locate ==
    /\ pc = "start"
    /\ rootDir = <<cwd>>
    /\ Begin("locate")
    /\ pc' = StepAfter("locate")
    /\ UNCHANGED <<disk, exitCode, configs, backedUp, packageManager, failed, calls,
                   report, unlinked, copyThrew, unlinkThrew, pre, envLeft, runs,
                   manifestWrites, removedFields, locator, other, validator>>

existsSync(fs, f) == fs[f] # Absent

findExistingConfigs(fs, m) ==
    LET eslint == SelectSeq(CONFIG_FILES.eslint, LAMBDA f : existsSync(fs, f))
        prettier == SelectSeq(CONFIG_FILES.prettier, LAMBDA f : existsSync(fs, f))
    IN  IF m.kind = "missing"
        THEN [threw |-> FALSE, found |-> [eslint |-> eslint, prettier |-> prettier]]
        ELSE IF m.kind # "ok"
        THEN [threw |-> TRUE, found |-> [eslint |-> eslint, prettier |-> prettier]]
        ELSE [threw |-> FALSE,
              found |-> [eslint |-> IF Truthy(m.eslintConfig)
                                    THEN Append(eslint, EslintSentinel) ELSE eslint,
                         prettier |-> IF Truthy(m.prettier)
                                      THEN Append(prettier, PrettierSentinel)
                                      ELSE prettier]]

\* The test of main() after detection, for its warning.
NoConfigs(c) == Len(c.eslint) = 0 /\ Len(c.prettier) = 0

\* The test dropped: the backup and the removal step always run.
HasConfigs_Always(c) == TRUE

\* The test counting standalone files only, not the embedded-field sentinels.
HasConfigs_FilesOnly(c) ==
    \E i \in DOMAIN (c.eslint \o c.prettier) :
        (c.eslint \o c.prettier)[i] \notin {EslintSentinel, PrettierSentinel}

\* The test of main() before the backup and the removal step.
HasConfigs(c) == Len(c.eslint) > 0 \/ Len(c.prettier) > 0

Detect ==
    /\ pc = "detect"
    /\ UNCHANGED <<locator, other, validator>>
    /\ Begin("detect")
    /\ LET r == findExistingConfigs(files, manifest)
       IN  IF r.threw
           THEN /\ Throw("detect")
                /\ UNCHANGED configs
           ELSE /\ configs' = r.found
                /\ pc' = StepAfter("detect")
                /\ report' = report \cup
                      (IF NoConfigs(r.found) THEN {"warn-no-config"} ELSE {"found-config"})
                /\ UNCHANGED <<exitCode, failed>>
    /\ UNCHANGED <<disk, backedUp, packageManager, calls, unlinked, copyThrew,
                   unlinkThrew, pre, envLeft, runs,
                   manifestWrites, removedFields>>

\* ----------------------------------------------------------------- backup
\* file.includes('package.json'): of the entries detection can return, the
\* two embedded-field sentinels.
IncludesPackageJson(file) == file \in {EslintSentinel, PrettierSentinel}

AllEntries(c) == c.eslint \o c.prettier

\* A copy that lands under another name than the one looked up later.
copyFileSync_WrongDest(bdir, dest, content) == bdir

\* A copy that creates the destination without the content of the source.
copyFileSync_Empty(bdir, dest, content) == [bdir EXCEPT ![dest] = <<dest, "empty">>]

copyFileSync(bdir, dest, content) == [bdir EXCEPT ![dest] = content]

\* The forEach of backupConfigs from entry i on; the copy of entry failAt
\* throws (failAt = 0: no copy throws).  threw holds the file whose copy threw.
RECURSIVE BackupFrom(_, _, _, _, _, _)
BackupFrom(i, list, fs, bdir, acc, failAt) ==
    IF i > Len(list)
    THEN [backupFiles |-> bdir, backedUp |-> acc, threw |-> {}]
    ELSE LET file == list[i]
         IN  IF IncludesPackageJson(file)
             THEN BackupFrom(i + 1, list, fs, bdir, acc, failAt)
             ELSE IF existsSync(fs, file)
             THEN IF i = failAt
                  THEN [backupFiles |-> bdir, backedUp |-> acc, threw |-> {file}]
                  ELSE BackupFrom(i + 1, list, fs, copyFileSync(bdir, file, fs[file]),
                                  Append(acc, file), failAt)
             ELSE BackupFrom(i + 1, list, fs, bdir, acc, failAt)

\* A backup step that copies nothing and reports no failure.
backupConfigs_CopiesNothing(fs, bdir, c, failAt) ==
    [backupFiles |-> bdir, backedUp |-> <<>>, threw |-> {}]

backupConfigs(fs, bdir, c, failAt) == BackupFrom(1, AllEntries(c), fs, bdir, <<>>, failAt)

Backup ==
    /\ pc = "backup"
    /\ UNCHANGED <<locator, other, validator>>
    /\ IF ~HasConfigs(configs)
       THEN /\ pc' = StepAfter("backup")
            /\ UNCHANGED <<backupDir, backupFiles, backedUp, copyThrew, steps, exitCode,
                           failed, report>>
       ELSE /\ Begin("backup")
            /\ \E mkdirOk \in BOOLEAN, failAt \in 0..Len(AllEntries(configs)) :
                  IF ~backupDir /\ ~mkdirOk
                  THEN /\ Throw("backup")
                       /\ UNCHANGED <<backupDir, backupFiles, backedUp, copyThrew>>
                  ELSE LET r == backupConfigs(files, backupFiles, configs, failAt)
                       IN  /\ backupDir' = TRUE
                           /\ backupFiles' = r.backupFiles
                           /\ copyThrew' = r.threw
                           /\ IF r.threw # {}
                              THEN /\ Throw("backup")
                                   /\ UNCHANGED backedUp
                              ELSE /\ backedUp' = r.backedUp
                                   /\ pc' = StepAfter("backup")
                                   /\ report' = report \cup {"backed-up"}
                                   /\ UNCHANGED <<exitCode, failed>>
    /\ UNCHANGED <<files, manifest, biome, lockfiles, configs, packageManager, calls,
                   unlinked, unlinkThrew, pre, envLeft, runs,
                   manifestWrites, removedFields>>

\* ------------------------------------------------------- package manager
\* The probe with yarn.lock tested first.
detectPackageManager_YarnFirst(locks) ==
    IF "yarn.lock" \in locks THEN "yarn"
    ELSE IF "pnpm-lock.yaml" \in locks THEN "pnpm"
    ELSE IF "bun.lockb" \in locks THEN "bun"
    ELSE "npm"

detectPackageManager(locks) ==
    IF "pnpm-lock.yaml" \in locks THEN "pnpm"
    ELSE IF "yarn.lock" \in locks THEN "yarn"
    ELSE IF "bun.lockb" \in locks THEN "bun"
    ELSE "npm"

Probe ==
    /\ pc = "probe"
    /\ UNCHANGED <<locator, other, validator>>
    /\ Begin("probe")
    /\ packageManager' = detectPackageManager(lockfiles)
    /\ pc' = StepAfter("probe")
    /\ UNCHANGED <<disk, exitCode, configs, backedUp, failed, calls, report, unlinked,
                   copyThrew, unlinkThrew, pre, envLeft, runs,
                   manifestWrites, removedFields>>

\* The command installBiome hands to execSync.
InstallCommand(pm) ==
    [program |-> pm,
     verb |-> CASE pm = "npm" -> "install --save-dev --save-exact"
                [] pm = "yarn" -> "add --dev --exact"
                [] pm = "pnpm" -> "add --save-dev --save-exact"
                [] pm = "bun" -> "add --dev --exact",
     args |-> <<BiomePackage>>]

\* The lockfile a package manager writes.
LockfileOf(pm) ==
    CASE pm = "npm" -> "package-lock.json"
      [] pm = "yarn" -> "yarn.lock"
      [] pm = "pnpm" -> "pnpm-lock.yaml"
      [] pm = "bun" -> "bun.lockb"

\* What a successful install leaves in package.json: the new development
\* dependency; a package manager run without a manifest may create one.
Installed(m, create) ==
    IF m.kind = "ok"
    THEN [m EXCEPT !.devDependencies = @ \cup {BiomePackage}]
    ELSE IF m.kind = "missing" /\ create
    THEN Manifest("ok", "absent", "absent", NoScripts, {BiomePackage}, {}, {})
    ELSE m

\* The catch block without its process.exit(1).
InstallCatch_FallThrough == "writeBiome"

\* Where main() goes from the catch block of the install step.
InstallCatch == "exited"

Install ==
    /\ pc = "install"
    /\ UNCHANGED <<locator, other, validator>>
    /\ Begin("install")
    /\ calls' = Append(calls, InstallCommand(packageManager))
    /\ \E ok \in BOOLEAN, create \in BOOLEAN :
          IF ok /\ manifest.kind \in {"ok", "missing"}
          THEN /\ manifest' = Installed(manifest, create)
               /\ lockfiles' = lockfiles \cup {LockfileOf(packageManager)}
               /\ pc' = StepAfter("install")
               /\ report' = report \cup {"installed"}
               /\ UNCHANGED <<exitCode, failed>>
          ELSE /\ pc' = InstallCatch
               /\ exitCode' = IF InstallCatch = "exited" THEN 1 ELSE exitCode
               /\ failed' = failed \cup {"install"}
               /\ report' = report \cup {"install-failed"}
               /\ UNCHANGED <<manifest, lockfiles>>
    /\ UNCHANGED <<files, backupDir, backupFiles, biome, configs, backedUp, packageManager,
                   unlinked, copyThrew, unlinkThrew, pre, envLeft, runs,
                   manifestWrites, removedFields>>

\* ------------------------------------------------------------- biome.json
\* The document generateBiomeConfig() returns: one literal, no parameters.
generateBiomeConfig == "default"

\* A write that leaves an existing biome.json alone.
writeBiomeJson_KeepExisting(old) ==
    IF old = "absent" THEN generateBiomeConfig ELSE old

\* fs.writeFileSync(biomeConfigPath, JSON.stringify(biomeConfig)): the content
\* of biome.json after the write, given its content before.
writeBiomeJson(old) == generateBiomeConfig

WriteBiome ==
    /\ pc = "writeBiome"
    /\ UNCHANGED <<locator, other, validator>>
    /\ Begin("writeBiome")
    /\ \E ok \in BOOLEAN :
          IF ok
          THEN /\ biome' = writeBiomeJson(biome)
               /\ pc' = StepAfter("writeBiome")
               /\ report' = report \cup {"created-biome-json"}
               /\ UNCHANGED <<exitCode, failed>>
          ELSE /\ Throw("writeBiome")
               /\ UNCHANGED biome
    /\ UNCHANGED <<files, backupDir, backupFiles, manifest, lockfiles, configs, backedUp,
                   packageManager, calls, unlinked, copyThrew, unlinkThrew, pre, envLeft, runs,
                   manifestWrites, removedFields>>

\* ------------------------------------------------------------ package.json
\* updatePackageJson up to its write: the parsed manifest with the embedded
\* fields deleted (when truthy) and the five script entries set.
\* What fs.writeFileSync(pkgPath, pkg) would leave on disk: the object
\* itself, not its JSON text.
updatePackageJson_NoStringify(m) ==
    [threw |-> m.kind # "ok",
     writes |-> <<[m EXCEPT !.kind = "malformed"]>>,
     removedFields |-> <<>>,
     oldScripts |-> m.scripts]

\* The rewrite applied to the manifest as it was when the run started, not
\* to the one read at the start of the step.
updatePackageJson_Stale(m) ==
    [threw |-> m.kind # "ok" \/ pre.manifest.kind # "ok",
     writes |->
        <<[pre.manifest EXCEPT
             !.eslintConfig = IF Truthy(@) THEN "absent" ELSE @,
             !.prettier = IF Truthy(@) THEN "absent" ELSE @,
             !.scripts = [k \in AllScripts |->
                             IF k \in ScriptKeys THEN scriptUpdates[k] ELSE @[k]]]>>,
     removedFields |->
         (IF Truthy(m.eslintConfig) THEN <<"eslintConfig">> ELSE <<>>)
         \o (IF Truthy(m.prettier) THEN <<"prettier">> ELSE <<>>),
     oldScripts |-> m.scripts]

\* One write per mutation: package.json is written after the fields are
\* deleted and again after the scripts are set.
updatePackageJson_TwoWrites(m) ==
    LET fieldsOnly ==
            [m EXCEPT
               !.eslintConfig = IF Truthy(m.eslintConfig) THEN "absent" ELSE @,
               !.prettier = IF Truthy(m.prettier) THEN "absent" ELSE @]
    IN  [threw |-> m.kind # "ok",
         writes |->
            <<fieldsOnly,
              [fieldsOnly EXCEPT
                 !.scripts = [k \in AllScripts |->
                                 IF k \in ScriptKeys THEN scriptUpdates[k] ELSE @[k]]]>>,
         removedFields |->
             (IF Truthy(m.eslintConfig) THEN <<"eslintConfig">> ELSE <<>>)
             \o (IF Truthy(m.prettier) THEN <<"prettier">> ELSE <<>>),
         oldScripts |-> m.scripts]

\* pkg.scripts[key] = pkg.scripts[key] || value: an existing entry is kept.
updatePackageJson_KeepExisting(m) ==
    [threw |-> m.kind # "ok",
     writes |->
        <<[m EXCEPT
             !.eslintConfig = IF Truthy(m.eslintConfig) THEN "absent" ELSE @,
             !.prettier = IF Truthy(m.prettier) THEN "absent" ELSE @,
             !.scripts = [k \in AllScripts |->
                             IF k \in ScriptKeys /\ @[k] = "absent"
                             THEN scriptUpdates[k] ELSE @[k]]]>>,
     removedFields |->
         (IF Truthy(m.eslintConfig) THEN <<"eslintConfig">> ELSE <<>>)
         \o (IF Truthy(m.prettier) THEN <<"prettier">> ELSE <<>>),
     oldScripts |-> m.scripts]

\* updatePackageJson: the manifest parsed, the embedded fields deleted (when
\* truthy), the five script entries set, and the contents it hands to
\* fs.writeFileSync, in order: one write of the whole manifest.
updatePackageJson(m) ==
    [threw |-> m.kind # "ok",
     writes |->
        <<[m EXCEPT
             !.eslintConfig = IF Truthy(m.eslintConfig) THEN "absent" ELSE @,
             !.prettier = IF Truthy(m.prettier) THEN "absent" ELSE @,
             !.scripts = [k \in AllScripts |->
                             IF k \in ScriptKeys THEN scriptUpdates[k] ELSE @[k]]]>>,
     removedFields |->
         (IF Truthy(m.eslintConfig) THEN <<"eslintConfig">> ELSE <<>>)
         \o (IF Truthy(m.prettier) THEN <<"prettier">> ELSE <<>>),
     oldScripts |-> m.scripts]

UpdateManifest ==
    /\ pc = "updateManifest"
    /\ UNCHANGED <<locator, other, validator>>
    /\ Begin("updateManifest")
    /\ LET r == updatePackageJson(manifest)
       IN  \E writeOk \in BOOLEAN :
              IF r.threw \/ ~writeOk
              THEN /\ Throw("updateManifest")
                   /\ UNCHANGED <<manifest, manifestWrites, removedFields>>
              ELSE /\ manifest' = r.writes[Len(r.writes)]
                   /\ manifestWrites' = manifestWrites \o r.writes
                   /\ removedFields' = r.removedFields
                   /\ pc' = StepAfter("updateManifest")
                   /\ report' = report \cup {"updated-scripts"}
                                \cup (IF Len(r.removedFields) > 0
                                      THEN {"removed-fields"} ELSE {})
                   /\ UNCHANGED <<exitCode, failed>>
    /\ UNCHANGED <<files, backupDir, backupFiles, biome, lockfiles, configs, backedUp,
                   packageManager, calls, unlinked, copyThrew, unlinkThrew, pre, envLeft,
                   runs>>

\* ------------------------------------------------------- old dependencies
\* block[name] is truthy: the name is declared with a non-empty version.
TruthyVersion(m, block, name) == name \in block /\ name \notin m.emptyVersions

Declared(m, name) ==
    \/ TruthyVersion(m, m.devDependencies, name)
    \/ TruthyVersion(m, m.dependencies, name)

\* removeOldPackages up to its execSync.
toRemove(m) == SelectSeq(PACKAGES_TO_REMOVE, LAMBDA name : Declared(m, name))

\* The uninstall command with the package manager fixed to npm.
UninstallCommand_AlwaysNpm(pm, names) ==
    [program |-> "npm", verb |-> "uninstall", args |-> names]

\* The command removeOldPackages hands to execSync.
UninstallCommand(pm, names) ==
    [program |-> pm,
     verb |-> IF pm = "npm" THEN "uninstall" ELSE "remove",
     args |-> names]

\* What a successful uninstall leaves in package.json.
Uninstalled(m, names) ==
    [m EXCEPT !.devDependencies = @ \ Range(names),
              !.dependencies = @ \ Range(names)]

RemoveDeps ==
    /\ pc = "removeDeps"
    /\ UNCHANGED <<locator, other, validator>>
    /\ Begin("removeDeps")
    /\ pc' = StepAfter("removeDeps")
    /\ IF manifest.kind # "ok"
       THEN /\ failed' = failed \cup {"removeDeps"}
            /\ report' = report \cup {"warn-remove-failed"}
            /\ UNCHANGED <<manifest, calls>>
       ELSE IF Len(toRemove(manifest)) = 0
       THEN /\ report' = report \cup {"no-old-packages"}
            /\ UNCHANGED <<manifest, calls, failed>>
       ELSE /\ calls' = Append(calls, UninstallCommand(packageManager, toRemove(manifest)))
            /\ \E ok \in BOOLEAN :
                  IF ok
                  THEN /\ manifest' = Uninstalled(manifest, toRemove(manifest))
                       /\ report' = report \cup {"removed-packages"}
                       /\ UNCHANGED failed
                  ELSE /\ failed' = failed \cup {"removeDeps"}
                       /\ report' = report \cup {"warn-remove-failed"}
                       /\ UNCHANGED manifest
    /\ UNCHANGED <<files, backupDir, backupFiles, biome, lockfiles, exitCode, configs,
                   backedUp, packageManager, unlinked, copyThrew, unlinkThrew, pre, envLeft, runs,
                   manifestWrites, removedFields>>

\* ------------------------------------------------------ old config files
unlinkSync(fs, f) == [fs EXCEPT ![f] = Absent]

\* The forEach of removeConfigFiles from entry i on; the unlink of entry
\* failAt throws (failAt = 0: no unlink throws).
RECURSIVE RemoveFrom(_, _, _, _, _)
RemoveFrom(i, list, fs, acc, failAt) ==
    IF i > Len(list)
    THEN [files |-> fs, removed |-> acc, threw |-> {}]
    ELSE LET file == list[i]
         IN  IF IncludesPackageJson(file)
             THEN RemoveFrom(i + 1, list, fs, acc, failAt)
             ELSE IF existsSync(fs, file)
             THEN IF i = failAt
                  THEN [files |-> fs, removed |-> acc, threw |-> {file}]
                  ELSE RemoveFrom(i + 1, list, unlinkSync(fs, file), Append(acc, file),
                                  failAt)
             ELSE RemoveFrom(i + 1, list, fs, acc, failAt)

\* removeConfigFiles handed the BackupRecord instead of the detected set.
RemovalList_BackedUp == backedUp

\* The list main() hands to removeConfigFiles.
RemovalList == AllEntries(configs)

removeConfigFiles(fs, list, failAt) == RemoveFrom(1, list, fs, <<>>, failAt)

RemoveFiles ==
    /\ pc = "removeFiles"
    /\ UNCHANGED <<locator, other, validator>>
    /\ IF ~HasConfigs(configs)
       THEN /\ pc' = StepAfter("removeFiles")
            /\ UNCHANGED <<files, unlinked, unlinkThrew, steps, exitCode, failed, report>>
       ELSE /\ Begin("removeFiles")
            /\ \E failAt \in 0..Len(RemovalList) :
                  LET r == removeConfigFiles(files, RemovalList, failAt)
                  IN  /\ files' = r.files
                      /\ unlinked' = unlinked \cup Range(r.removed)
                      /\ unlinkThrew' = r.threw
                      /\ IF r.threw # {}
                         THEN Throw("removeFiles")
                         ELSE /\ pc' = StepAfter("removeFiles")
                              /\ report' = report \cup
                                    (IF Len(r.removed) > 0 THEN {"removed-files"} ELSE {})
                              /\ UNCHANGED <<exitCode, failed>>
    /\ UNCHANGED <<backupDir, backupFiles, manifest, biome, lockfiles, configs, backedUp,
                   packageManager, calls, copyThrew, pre, envLeft, runs,
                   manifestWrites, removedFields>>

\* ---------------------------------------------------------------- summary
Summary ==
    /\ pc = "summary"
    /\ UNCHANGED <<locator, other, validator>>
    /\ Begin("summary")
    /\ report' = report \cup {"migration-complete"}
                 \cup (IF HasConfigs(configs) THEN {"backup-location"} ELSE {})
    /\ pc' = StepAfter("summary")
    /\ UNCHANGED <<disk, exitCode, configs, backedUp, packageManager, failed, calls,
                   unlinked, copyThrew, unlinkThrew, pre, envLeft, runs,
                   manifestWrites, removedFields>>

\* The run alone: nothing but main() changes the project while it runs.
\* validate-skill.js is not run.
NoSkill ==
    [exists |-> FALSE, readable |-> FALSE, opens |-> FALSE, closes |-> FALSE,
     long |-> FALSE, dirName |-> <<".">>, frontmatter |-> <<>>]

InitMain(touches) ==
    /\ InitMigration(touches)
    /\ skill = NoSkill
    /\ vpc = "idle"
    /\ lineNo = 0
    /\ metadata = <<>>
    /\ currentArray = <<>>
    /\ errors = <<>>
    /\ warnings = {}
    /\ exitStatus = "none"

\* The locals of a run that is about to start in directory d.
FreshLocals(d) ==
    [pc |-> "start", exitCode |-> 0,
     configs |-> [eslint |-> <<>>, prettier |-> <<>>], backedUp |-> <<>>,
     packageManager |-> "unknown", steps |-> <<>>, failed |-> {}, calls |-> <<>>,
     report |-> {}, unlinked |-> {}, copyThrew |-> {}, unlinkThrew |-> {},
     manifestWrites |-> <<>>, removedFields |-> <<>>, dir |-> d, rootDir |-> <<>>]

\* There is no second run.
NoOtherRun(d) == [FreshLocals(d) EXCEPT !.pc = "none"]

\* main() is started in a project directory one level below the filesystem
\* root of a POSIX system, no ancestor of which holds a package.json.
InitProject(touches) ==
    /\ InitMain(touches)
    /\ platform = "posix"
    /\ cwd = 1
    /\ pkgDirs = {}
    /\ dir = cwd
    /\ rootDir = <<>>

\* One run of the script on the project.
InitRun(touches) ==
    /\ InitProject(touches)
    /\ other = NoOtherRun(cwd)

Init == InitRun(0)

Next ==
    \/ findRootDirLook
    \/ findRootDirFallback
    \/ Locate
    \/ Detect
    \/ Backup
    \/ Probe
    \/ Install
    \/ WriteBiome
    \/ UpdateManifest
    \/ RemoveDeps
    \/ RemoveFiles
    \/ Summary

Spec == Init /\ [][Next]_vars

\* ------------------------------------------------ a concurrent process
\* Another process (an editor, a script of the package manager) deletes or
\* creates a legacy config file between two steps of main().
EnvWindow == {"backup", "probe", "install", "writeBiome", "updateManifest",
              "removeDeps", "removeFiles"}

EnvTouch ==
    /\ pc \in EnvWindow
    /\ UNCHANGED <<locator, other, validator>>
    /\ envLeft > 0
    /\ envLeft' = envLeft - 1
    /\ \E f \in InitNames :
          files' = [files EXCEPT ![f] = IF @ = Absent THEN <<f, "env">> ELSE Absent]
    /\ UNCHANGED <<backupDir, backupFiles, manifest, biome, lockfiles, pc, exitCode,
                   configs, backedUp, packageManager, steps, failed, calls, report,
                   unlinked, copyThrew, unlinkThrew, pre, runs, manifestWrites,
                   removedFields>>

InitEnv ==
    /\ InitRun(MaxEnv)
    /\ manifest.kind \in {"ok", "missing"}
    /\ manifest.scripts = NoScripts
    /\ biome = "absent"
    /\ lockfiles = {}

NextEnv == Next \/ EnvTouch

SpecEnv == InitEnv /\ [][NextEnv]_vars

\* ------------------------------------------------------- run it again
\* The script is started again on the project as the previous run left it:
\* the disk stays, main() starts with fresh locals.
Rerun ==
    /\ pc = "exited"
    /\ Len(runs) + 1 < MaxRuns
    /\ runs' = Append(runs, exitCode)
    /\ pc' = "start"
    /\ exitCode' = 0
    /\ configs' = [eslint |-> <<>>, prettier |-> <<>>]
    /\ backedUp' = <<>>
    /\ packageManager' = "unknown"
    /\ steps' = <<>>
    /\ failed' = {}
    /\ calls' = <<>>
    /\ report' = {}
    /\ unlinked' = {}
    /\ copyThrew' = {}
    /\ unlinkThrew' = {}
    /\ manifestWrites' = <<>>
    /\ removedFields' = <<>>
    /\ pre' = [files |-> files, backupDir |-> backupDir, backupFiles |-> backupFiles,
               manifest |-> manifest, biome |-> biome, lockfiles |-> lockfiles]
    /\ dir' = cwd
    /\ rootDir' = <<>>
    /\ UNCHANGED <<disk, envLeft, platform, cwd, pkgDirs, other, validator>>

InitRerun ==
    /\ InitRun(0)
    /\ lockfiles = {}

NextRerun == Next \/ Rerun

SpecRerun == InitRerun /\ [][NextRerun]_vars

\* ------------------------------------------------------ two runs at once
\* The script is started twice on the same project.  The variables of main()
\* above are those of the run that takes the next step, `other` holds those
\* of the run that waits: the operating system may give the processor to the
\* other process between any two steps.
Locals ==
    [pc |-> pc, exitCode |-> exitCode, configs |-> configs, backedUp |-> backedUp,
     packageManager |-> packageManager, steps |-> steps, failed |-> failed,
     calls |-> calls, report |-> report, unlinked |-> unlinked,
     copyThrew |-> copyThrew, unlinkThrew |-> unlinkThrew,
     manifestWrites |-> manifestWrites, removedFields |-> removedFields,
     dir |-> dir, rootDir |-> rootDir]

Switch ==
    /\ other.pc \notin {"none", "exited"}
    /\ other' = Locals
    /\ pc' = other.pc
    /\ exitCode' = other.exitCode
    /\ configs' = other.configs
    /\ backedUp' = other.backedUp
    /\ packageManager' = other.packageManager
    /\ steps' = other.steps
    /\ failed' = other.failed
    /\ calls' = other.calls
    /\ report' = other.report
    /\ unlinked' = other.unlinked
    /\ copyThrew' = other.copyThrew
    /\ unlinkThrew' = other.unlinkThrew
    /\ manifestWrites' = other.manifestWrites
    /\ removedFields' = other.removedFields
    /\ dir' = other.dir
    /\ rootDir' = other.rootDir
    /\ UNCHANGED <<disk, pre, envLeft, runs, platform, cwd, pkgDirs, validator>>

InitTwo ==
    /\ InitProject(0)
    /\ manifest.kind \in {"ok", "missing"}
    /\ manifest.scripts = NoScripts
    /\ manifest.emptyVersions = {}
    /\ biome = "absent"
    /\ lockfiles = {}
    /\ other = FreshLocals(cwd)

NextTwo == Next \/ Switch

SpecTwo == InitTwo /\ [][NextTwo]_vars

\* ------------------------------------------------- findRootDir alone
\* findRootDir on every platform, working directory and placement of
\* package.json files up to MaxDepth, in a project without legacy files.
InitLocate ==
    /\ InitMain(0)
    /\ \A f \in AllNames : files[f] = Absent
    /\ ~backupDir
    /\ manifest \in {NoManifest("missing"),
                     Manifest("ok", "absent", "absent", NoScripts, {}, {}, {})}
    /\ biome = "absent"
    /\ lockfiles = {}
    /\ platform \in {"posix", "win32"}
    /\ cwd \in 0..MaxDepth
    /\ pkgDirs \in SUBSET ((0..MaxDepth) \ {cwd})
    /\ dir = cwd
    /\ rootDir = <<>>
    /\ other = NoOtherRun(cwd)

NextLocate ==
    \/ findRootDirLook
    \/ findRootDirFallback

\* The loop is not interrupted: an iteration that can run does run.
SpecLocate == InitLocate /\ [][NextLocate]_vars /\ WF_vars(NextLocate)

\* ------------------------------------------------------ validate-skill.js
\* A line of text is a sequence of symbols: the characters " ", "-", ":", ","
\* and "A", and words of lower-case letters that stand for themselves.  "long"
\* stands for a text of LongText lower-case characters.
Words == {"a", "b", "x", "y", "name", "description", "tags", "when", "long"}

\* The frontmatter lines a SKILL.md may hold.
FrontmatterLines ==
    {<<" ">>,
     <<"name", ":", " ", "a", "-", "b">>,
     <<"name", ":", " ", "A">>,
     <<"description", ":", " ", "when">>,
     <<"description", ":", " ", "long">>,
     <<"description", ":">>,
     <<"tags", ":">>,
     <<" ", "-", " ", "x">>,
     <<"-", " ", "a", ":", "b">>,
     <<"-", "y">>,
     <<":", "a">>}

RECURSIVE trimStart(_)
trimStart(t) == IF t # <<>> /\ Head(t) = " " THEN trimStart(Tail(t)) ELSE t

RECURSIVE trimEnd(_)
trimEnd(t) ==
    IF t # <<>> /\ t[Len(t)] = " " THEN trimEnd(SubSeq(t, 1, Len(t) - 1)) ELSE t

\* String.prototype.trim.
trim(t) == trimEnd(trimStart(t))

\* line.trim().startsWith('- ')
IsArrayItem(line) ==
    LET t == trim(line) IN Len(t) >= 2 /\ t[1] = "-" /\ t[2] = " "

\* line.trim().substring(2)
ItemOf(line) == LET t == trim(line) IN SubSeq(t, 3, Len(t))

\* line.indexOf(':'), counted from 1; 0 when the line has no colon.
colonIndex(line) ==
    IF \E i \in DOMAIN line : line[i] = ":"
    THEN CHOOSE i \in DOMAIN line :
            line[i] = ":" /\ \A j \in 1..(i - 1) : line[j] # ":"
    ELSE 0

\* The line is read as a key-value pair: it is no array item and its first
\* colon is not its first character.
IsKeyLine(line) == trim(line) # <<>> /\ ~IsArrayItem(line) /\ colonIndex(line) > 1

KeyOf(line) == trim(SubSeq(line, 1, colonIndex(line) - 1))

ValueOf(line) == trim(SubSeq(line, colonIndex(line) + 1, Len(line)))

String(v) == [kind |-> "string", value |-> v]

Array(items) == [kind |-> "array", items |-> items]

\* metadata[key] = v
Put(md, key, v) ==
    [k \in DOMAIN md \cup {key} |-> IF k = key THEN v ELSE md[k]]

\* The loop body with the array of the previous key left current after a
\* key with an inline value.
parseLine_NoReset(md, cur, line) ==
    IF trim(line) = <<>> THEN [metadata |-> md, currentArray |-> cur]
    ELSE IF IsArrayItem(line)
    THEN IF cur # <<>>
         THEN [metadata |-> Put(md, cur[1],
                                Array(Append(md[cur[1]].items, ItemOf(line)))),
               currentArray |-> cur]
         ELSE [metadata |-> md, currentArray |-> cur]
    ELSE IF colonIndex(line) > 1
    THEN IF ValueOf(line) = <<>>
         THEN [metadata |-> Put(md, KeyOf(line), Array(<<>>)),
               currentArray |-> <<KeyOf(line)>>]
         ELSE [metadata |-> Put(md, KeyOf(line), String(ValueOf(line))),
               currentArray |-> IF cur # <<>> /\ cur[1] = KeyOf(line) THEN <<>> ELSE cur]
    ELSE [metadata |-> md, currentArray |-> cur]

\* One iteration of the loop over frontmatterLines.
parseLine(md, cur, line) ==
    IF trim(line) = <<>> THEN [metadata |-> md, currentArray |-> cur]
    ELSE IF IsArrayItem(line)
    THEN IF cur # <<>>
         THEN [metadata |-> Put(md, cur[1],
                                Array(Append(md[cur[1]].items, ItemOf(line)))),
               currentArray |-> cur]
         ELSE [metadata |-> md, currentArray |-> cur]
    ELSE IF colonIndex(line) > 1
    THEN IF ValueOf(line) = <<>>
         THEN [metadata |-> Put(md, KeyOf(line), Array(<<>>)),
               currentArray |-> <<KeyOf(line)>>]
         ELSE [metadata |-> Put(md, KeyOf(line), String(ValueOf(line))),
               currentArray |-> <<>>]
    ELSE [metadata |-> md, currentArray |-> cur]

\* The longest description accepted.
MaxDescription == 1024

\* The number of characters the word "long" stands for.
LongText == MaxDescription + 1

RECURSIVE length(_)
\* String.prototype.length of a text.
length(t) ==
    IF t = <<>> THEN 0
    ELSE (IF Head(t) = "long" THEN LongText ELSE 1) + length(Tail(t))

RECURSIVE join(_)
\* Array.prototype.join with ",", which is how an array is made a string.
join(items) ==
    IF items = <<>> THEN <<>>
    ELSE IF Len(items) = 1 THEN items[1]
    ELSE items[1] \o <<",">> \o join(Tail(items))

\* The text a test or a comparison sees for a metadata value.
ToText(v) == IF v.kind = "string" THEN v.value ELSE join(v.items)

\* /^[a-z0-9]+(-[a-z0-9]+)*$/.test(t)
NameFormat(t) ==
    /\ t # <<>>
    /\ \A i \in DOMAIN t : t[i] \in Words \cup {"-"}
    /\ t[1] # "-" /\ t[Len(t)] # "-"
    /\ \A i \in 1..(Len(t) - 1) : ~(t[i] = "-" /\ t[i + 1] = "-")

\* keywords.some(kw => description.toLowerCase().includes(kw))
hasKeywords(t) == \E i \in DOMAIN t : t[i] \in {"when", "use", "helps", "for"}

Has(md, key) == <<key>> \in DOMAIN md

\* The errors the field checks push, in order.
FieldErrors(md) ==
    (IF ~Has(md, "name") THEN <<"name-missing">>
     ELSE IF ~NameFormat(ToText(md[<<"name">>])) THEN <<"name-format">> ELSE <<>>)
    \o
    (IF ~Has(md, "description") THEN <<"description-missing">>
     ELSE LET d == md[<<"description">>]
              descLength == IF d.kind = "string" THEN length(d.value) ELSE Len(d.items)
          IN  IF descLength < 1 \/ descLength > MaxDescription
              THEN <<"description-length">> ELSE <<>>)

\* The warning of the name check.
NameWarnings(md, dirName) ==
    IF Has(md, "name") /\ dirName # <<".">>
       /\ (md[<<"name">>].kind = "array" \/ md[<<"name">>].value # dirName)
    THEN {"name-directory"} ELSE {}

\* The warnings the field checks push.
FieldWarnings(md, dirName) ==
    NameWarnings(md, dirName)
    \cup
    (IF Has(md, "description") /\ md[<<"description">>].kind = "string"
        /\ ~hasKeywords(md[<<"description">>].value)
     THEN {"no-keywords"} ELSE {})
    \cup
    (IF Has(md, "tags") /\ md[<<"tags">>].kind # "array"
     THEN {"tags-not-array"} ELSE {})

\* metadata.description.toLowerCase() on an array: a TypeError nothing catches.
DescriptionThrows(md) ==
    Has(md, "description") /\ md[<<"description">>].kind = "array"

\* The variables of the migration script, which the validator never touches.
migration ==
    <<files, backupDir, backupFiles, manifest, biome, lockfiles, pc, exitCode,
      configs, backedUp, packageManager, steps, failed, calls, report,
      unlinked, copyThrew, unlinkThrew, pre, envLeft, runs, manifestWrites,
      removedFields, platform, cwd, pkgDirs, dir, rootDir, other>>

\* An exception nothing catches ends the process with status 1.
Crash ==
    /\ vpc' = "crashed"
    /\ exitStatus' = "1"

\* validateSkillMd from its start to the line-count check.
ReadFile ==
    /\ vpc = "read"
    /\ IF ~skill.exists
       THEN /\ vpc' = "done"
            /\ exitStatus' = "1"
            /\ UNCHANGED warnings
       ELSE IF ~skill.readable
       THEN /\ Crash
            /\ UNCHANGED warnings
       ELSE /\ vpc' = "delimiters"
            /\ warnings' = IF skill.long THEN {"line-count"} ELSE {}
            /\ UNCHANGED exitStatus
    /\ UNCHANGED <<migration, skill, lineNo, metadata, currentArray, errors>>

\* The two tests of the frontmatter delimiters.
ExtractFrontmatter ==
    /\ vpc = "delimiters"
    /\ IF ~skill.opens
       THEN /\ errors' = Append(errors, "no-opening-delimiter")
            /\ vpc' = "print"
       ELSE IF ~skill.closes
       THEN /\ errors' = Append(errors, "no-closing-delimiter")
            /\ vpc' = "print"
       ELSE /\ vpc' = IF skill.frontmatter = <<>> THEN "fields" ELSE "parse"
            /\ UNCHANGED errors
    /\ UNCHANGED <<migration, skill, lineNo, metadata, currentArray, warnings, exitStatus>>

\* One iteration of the parser's loop.
ParseLine ==
    /\ vpc = "parse"
    /\ lineNo < Len(skill.frontmatter)
    /\ LET r == parseLine(metadata, currentArray, skill.frontmatter[lineNo + 1])
       IN  /\ metadata' = r.metadata
           /\ currentArray' = r.currentArray
    /\ lineNo' = lineNo + 1
    /\ vpc' = IF lineNo + 1 = Len(skill.frontmatter) THEN "fields" ELSE "parse"
    /\ UNCHANGED <<migration, skill, errors, warnings, exitStatus>>

\* The checks of the fields, of the sections of the body and of the
\* references and scripts directories.
ValidateFields ==
    /\ vpc = "fields"
    /\ \E sectionMissing \in BOOLEAN, readdirThrows \in BOOLEAN :
          IF DescriptionThrows(metadata)
          THEN /\ Crash
               /\ errors' = errors \o FieldErrors(metadata)
               /\ warnings' = warnings \cup NameWarnings(metadata, skill.dirName)
          ELSE IF readdirThrows
          THEN /\ Crash
               /\ errors' = errors \o FieldErrors(metadata)
               /\ warnings' = warnings \cup FieldWarnings(metadata, skill.dirName)
                                 \cup (IF sectionMissing THEN {"section-missing"} ELSE {})
          ELSE /\ errors' = errors \o FieldErrors(metadata)
               /\ warnings' = warnings \cup FieldWarnings(metadata, skill.dirName)
                                 \cup (IF sectionMissing THEN {"section-missing"} ELSE {})
               /\ vpc' = "print"
               /\ UNCHANGED exitStatus
    /\ UNCHANGED <<migration, skill, lineNo, metadata, currentArray>>

printResults ==
    /\ vpc = "print"
    /\ vpc' = "done"
    /\ exitStatus' = IF Len(errors) > 0 THEN "1" ELSE "0"
    /\ UNCHANGED <<migration, skill, lineNo, metadata, currentArray, errors, warnings>>

\* How many lines the frontmatter of a SKILL.md may have.
MaxLines == 3

RECURSIVE Texts(_)
\* The frontmatters of at most n lines.
Texts(n) ==
    IF n = 0 THEN {<<>>}
    ELSE LET shorter == Texts(n - 1)
         IN  shorter \cup {Append(t, l) : t \in shorter, l \in FrontmatterLines}

\* The SKILL.md files validate-skill.js is run on: missing, a directory,
\* without an opening or a closing delimiter, or with a frontmatter.
Skills ==
    {NoSkill, [NoSkill EXCEPT !.exists = TRUE]}
    \cup {[NoSkill EXCEPT !.exists = TRUE, !.readable = TRUE, !.long = l,
                          !.opens = o]
             : l \in BOOLEAN, o \in BOOLEAN}
    \cup {[exists |-> TRUE, readable |-> TRUE, opens |-> TRUE, closes |-> TRUE,
           long |-> l, dirName |-> d, frontmatter |-> t]
             : l \in BOOLEAN, d \in {<<".">>, <<"a", "-", "b">>}, t \in Texts(MaxLines)}

InitValidate ==
    /\ InitMigration(0)
    /\ \A f \in AllNames : files[f] = Absent
    /\ ~backupDir
    /\ manifest = NoManifest("missing")
    /\ biome = "absent"
    /\ lockfiles = {}
    /\ platform = "posix"
    /\ cwd = 1
    /\ pkgDirs = {}
    /\ dir = cwd
    /\ rootDir = <<>>
    /\ other = NoOtherRun(cwd)
    /\ skill \in Skills
    /\ vpc = "read"
    /\ lineNo = 0
    /\ metadata = <<>>
    /\ currentArray = <<>>
    /\ errors = <<>>
    /\ warnings = {}
    /\ exitStatus = "none"

NextValidate ==
    \/ ReadFile
    \/ ExtractFrontmatter
    \/ ParseLine
    \/ ValidateFields
    \/ printResults

SpecValidate == InitValidate /\ [][NextValidate]_vars

\* ------------------------------------------------------------- properties
Ran(step) == step \in Range(steps)

\* The standalone files detection returned.
DetectedFiles == {f \in Range(AllEntries(configs)) : ~IncludesPackageJson(f)}

\* C1: a detected standalone file that is gone from ProjectRoot has a copy in
\* the backup directory whose content is that of the file before the run; a
\* file is never both deleted and missing from the backup.
C1_DeletedOnlyIfBackedUp ==
    \A f \in DetectedFiles :
        files[f] = Absent =>
            /\ backupDir
            /\ backupFiles[f] # Absent
            /\ backupFiles[f] = pre.files[f]

C1_Witness ==
    \E f \in DetectedFiles :
        /\ f \in unlinked
        /\ files[f] = Absent
        /\ backupFiles[f] = pre.files[f]
        /\ pre.backupFiles[f] # pre.files[f]

\* C2: when the install command fails, the run is over with exit status 1,
\* biome.json, package.json, the lockfiles and the legacy files are as they
\* were before the run, no file was unlinked and the install command is the
\* only command invoked; only the backup directory may differ.
C2_InstallFailureAborts ==
    "install" \in failed =>
        /\ pc = "exited"
        /\ exitCode = 1
        /\ steps[Len(steps)] = "install"
        /\ biome = pre.biome
        /\ manifest = pre.manifest
        /\ lockfiles = pre.lockfiles
        /\ files = pre.files
        /\ unlinked = {}
        /\ calls = <<InstallCommand(packageManager)>>

C2_Witness ==
    /\ "install" \in failed
    /\ pc = "exited"
    /\ Len(backedUp) > 0
    /\ backupFiles # pre.backupFiles

\* C3: install is the only step whose failure ends the run early: a run in
\* which the install command did not fail runs every step, reaches the
\* summary and exits with status 0.
C3_OnlyInstallIsFatal ==
    (pc = "exited" /\ "install" \notin failed) =>
        /\ exitCode = 0
        /\ Ran("summary")
        /\ {"probe", "install", "writeBiome", "updateManifest", "removeDeps"}
              \subseteq Range(steps)

\* C4: the removal step unlinks exactly the files of the BackupRecord: no
\* file outside backedUp is ever unlinked, and once the step is through
\* every file of backedUp is gone from ProjectRoot.
C4_RemovesExactlyBackedUp ==
    /\ unlinked \subseteq Range(backedUp)
    /\ pc = "summary" => \A f \in Range(backedUp) : files[f] = Absent

\* C5: once a copy has thrown in the backup step, every other detected file
\* that exists is in the backup directory and in the BackupRecord, and the
\* file whose copy threw is never unlinked.
C5_CopyFailureDoesNotStopBackup ==
    copyThrew # {} =>
        /\ \A f \in DetectedFiles \ copyThrew :
              existsSync(files, f) =>
                  backupFiles[f] = files[f] /\ f \in Range(backedUp)
        /\ copyThrew \cap unlinked = {}

\* C6: a run whose manifest update failed still attempts the dependency
\* removal and the file removal, reaches the summary and reports the
\* manifest as not fully migrated.
C6_ManifestFailureContinues ==
    (pc = "exited" /\ "updateManifest" \in failed) =>
        /\ Ran("removeDeps")
        /\ HasConfigs(configs) => Ran("removeFiles")
        /\ Ran("summary")
        /\ "manifest-not-migrated" \in report

\* C7: a run in which an unlink threw still deletes the other backed-up
\* files, reaches the summary and exits with status 0.
C7_UnlinkFailureIsPerFile ==
    (pc = "exited" /\ unlinkThrew # {}) =>
        /\ \A f \in Range(backedUp) \ unlinkThrew : files[f] = Absent
        /\ Ran("summary")
        /\ exitCode = 0

\* C8: detection never fails: with a manifest that cannot be read or parsed
\* it returns the standalone files found, no embedded-field entry, and the
\* run goes on to the next step.
C8_DetectionNeverFails ==
    /\ "detect" \notin failed
    /\ (Ran("detect") /\ manifest.kind \in {"malformed", "unreadable"}) =>
          /\ pc # "exited" \/ Ran("probe")
          /\ configs =
                [eslint |-> SelectSeq(CONFIG_FILES.eslint,
                                      LAMBDA f : existsSync(pre.files, f)),
                 prettier |-> SelectSeq(CONFIG_FILES.prettier,
                                        LAMBDA f : existsSync(pre.files, f))]

\* C9: a run in which the dependency removal failed printed the warning,
\* still ran the file removal, reached the summary and exits with status 0.
C9_RemovalFailureIsNonFatal ==
    (pc = "exited" /\ "removeDeps" \in failed) =>
        /\ "warn-remove-failed" \in report
        /\ HasConfigs(configs) => Ran("removeFiles")
        /\ Ran("summary")
        /\ exitCode = 0

\* C10: once detection has found no legacy config, the backup directory is
\* never created or written and neither the backup step nor the removal
\* step is invoked, whatever the other steps do.
C10_NoConfigNoBackup ==
    "warn-no-config" \in report =>
        /\ backupDir = pre.backupDir
        /\ backupFiles = pre.backupFiles
        /\ ~Ran("backup")
        /\ ~Ran("removeFiles")
        /\ unlinked = {}

C10_Witness ==
    /\ "warn-no-config" \in report
    /\ pc = "exited"
    /\ Ran("summary")
    /\ ~backupDir

\* The previous run went through to its summary.
PreviousRunComplete == Len(runs) > 0 /\ runs[Len(runs)] = 0

\* C11: in a run that follows a complete run, nothing the previous run left
\* makes a step throw (package.json parses, detection does not throw, a run
\* in which no call fails ends at the summary with status 0), and biome.json and
\* the five script entries stay what the previous run left.
C11_SecondRunIdempotent ==
    PreviousRunComplete =>
        /\ manifest.kind = "ok"
        /\ "detect" \notin failed
        /\ (pc = "exited" /\ failed = {}) => (exitCode = 0 /\ Ran("summary"))
        /\ biome = pre.biome
        /\ \A k \in ScriptKeys : manifest.scripts[k] = pre.manifest.scripts[k]

C11_Witness ==
    /\ PreviousRunComplete
    /\ pc = "exited"
    /\ exitCode = 0
    /\ Ran("install") /\ "install" \notin failed
    /\ Len(manifestWrites) = 1
    /\ biome = "default"

\* The uninstall commands invoked so far.
UninstallCalls == SelectSeq(calls, LAMBDA c : c.verb \in {"uninstall", "remove"})

\* The legacy package names a manifest declares, in either block.
DeclaredLegacy(m) ==
    {n \in Range(PACKAGES_TO_REMOVE) : n \in m.devDependencies \cup m.dependencies}

\* C12: once the dependency-removal step has run, the uninstall command was
\* invoked with exactly the legacy package names the manifest declared, each
\* once, and was not invoked at all when it declared none.
C12_UninstallsExactlyDeclared ==
    (Ran("removeDeps") /\ pc # "removeDeps") =>
        IF DeclaredLegacy(pre.manifest) = {}
        THEN Len(UninstallCalls) = 0
        ELSE /\ Len(UninstallCalls) = 1
             /\ Range(UninstallCalls[1].args) = DeclaredLegacy(pre.manifest)
             /\ Len(UninstallCalls[1].args) = Cardinality(DeclaredLegacy(pre.manifest))

\* The same with "declared" read as the code reads it (a truthy version).
C12_UninstallsExactlyTruthy ==
    (Ran("removeDeps") /\ pc # "removeDeps") =>
        LET S == DeclaredLegacy(pre.manifest) \ pre.manifest.emptyVersions
        IN  IF S = {}
            THEN Len(UninstallCalls) = 0
            ELSE /\ Len(UninstallCalls) = 1
                 /\ Range(UninstallCalls[1].args) = S
                 /\ Len(UninstallCalls[1].args) = Cardinality(S)

\* C13: once the manifest update has succeeded, package.json holds the fixed
\* biome command under each of lint, format, format:check, check and
\* check:fix, whatever these entries were before.
C13_ScriptsOverwritten ==
    "updated-scripts" \in report =>
        /\ manifest.kind = "ok"
        /\ manifest.scripts["lint"] = "biome lint ."
        /\ manifest.scripts["format"] = "biome format --write ."
        /\ manifest.scripts["format:check"] = "biome format ."
        /\ manifest.scripts["check"] = "biome check ."
        /\ manifest.scripts["check:fix"] = "biome check --write ."

C13_Witness ==
    /\ "updated-scripts" \in report
    /\ pre.manifest.scripts["lint"] = "eslint ."
    /\ pre.manifest.scripts["check"] = "absent"
    /\ manifest.scripts["lint"] = "biome lint ."

\* The embedded legacy fields package.json carried when the run started.
PresentFields(m) ==
    (IF m.eslintConfig # "absent" THEN {"eslintConfig"} ELSE {})
    \cup (IF m.prettier # "absent" THEN {"prettier"} ELSE {})

\* C14: after a successful manifest update the written manifest has neither
\* eslintConfig nor prettier, whatever value they had, and the returned list
\* of removed fields names exactly the fields present before.
C14_FieldsRemoved ==
    "updated-scripts" \in report =>
        /\ manifest.eslintConfig = "absent"
        /\ manifest.prettier = "absent"
        /\ Range(removedFields) = PresentFields(pre.manifest)

\* What the code does: the truthy fields, and only they, are removed and named.
C14_TruthyFieldsRemoved ==
    "updated-scripts" \in report =>
        /\ ~Truthy(manifest.eslintConfig)
        /\ ~Truthy(manifest.prettier)
        /\ manifest.eslintConfig = "falsy" <=> pre.manifest.eslintConfig = "falsy"
        /\ manifest.prettier = "falsy" <=> pre.manifest.prettier = "falsy"
        /\ Range(removedFields) =
              {f \in PresentFields(pre.manifest) :
                  Truthy(IF f = "prettier" THEN pre.manifest.prettier
                         ELSE pre.manifest.eslintConfig)}

\* C15: in every run in which install succeeds the biome.json write is
\* attempted, with no pre-check, and once it has been made biome.json is the
\* fixed default document, whatever biome.json held before and whatever
\* legacy configuration was detected.
C15_BiomeJsonOverwritten ==
    ("installed" \in report /\ pc # "writeBiome") =>
        /\ Ran("writeBiome")
        /\ "writeBiome" \notin failed =>
              (biome = generateBiomeConfig /\ "created-biome-json" \in report)

C15_Witness ==
    /\ "created-biome-json" \in report
    /\ pre.biome = "custom"
    /\ biome = generateBiomeConfig
    /\ DetectedFiles # {}

\* C16: the probe always returns, follows the priority pnpm-lock.yaml, then
\* yarn.lock, then bun.lockb, then npm, returns one of the four kinds for
\* every combination of lockfiles, and modifies nothing on disk.
C16_ProbePriority ==
    [][pc = "probe" =>
         /\ pc' = "install"
         /\ packageManager' \in {"pnpm", "yarn", "bun", "npm"}
         /\ "pnpm-lock.yaml" \in lockfiles => packageManager' = "pnpm"
         /\ ("pnpm-lock.yaml" \notin lockfiles /\ "yarn.lock" \in lockfiles)
               => packageManager' = "yarn"
         /\ ({"pnpm-lock.yaml", "yarn.lock"} \cap lockfiles = {}
                /\ "bun.lockb" \in lockfiles)
               => packageManager' = "bun"
         /\ {"pnpm-lock.yaml", "yarn.lock", "bun.lockb"} \cap lockfiles = {}
               => packageManager' = "npm"
         /\ UNCHANGED <<disk, exitCode, failed>>]_vars

C16_Witness ==
    /\ pc = "install"
    /\ pre.lockfiles = {"pnpm-lock.yaml", "yarn.lock", "bun.lockb"}
    /\ packageManager = "pnpm"

\* The order of the steps of a run.
StepOrder ==
    <<"locate", "detect", "backup", "probe", "install", "writeBiome",
      "updateManifest", "removeDeps", "removeFiles", "summary">>

Position(step) == CHOOSE i \in DOMAIN StepOrder : StepOrder[i] = step

ScriptsSet(m) == \A k \in ScriptKeys : m.scripts[k] = scriptUpdates[k]

\* C18: in one run main() writes package.json at most once, and that write
\* carries the removal of the embedded fields and the five script entries
\* together: package.json on disk never has the fields removed without the
\* scripts set, nor the scripts set with an embedded configuration left.
C18_SingleManifestWrite ==
    /\ Len(manifestWrites) <= 1
    /\ Len(manifestWrites) = 1 <=> "updated-scripts" \in report
    /\ \A i \in DOMAIN manifestWrites :
          /\ ~Truthy(manifestWrites[i].eslintConfig)
          /\ ~Truthy(manifestWrites[i].prettier)
          /\ ScriptsSet(manifestWrites[i])
    /\ (\/ manifest.eslintConfig # pre.manifest.eslintConfig
        \/ manifest.prettier # pre.manifest.prettier) => ScriptsSet(manifest)
    /\ ScriptsSet(manifest) =>
          (~Truthy(manifest.eslintConfig) /\ ~Truthy(manifest.prettier))
    /\ manifestWrites = <<>> => manifest.scripts = pre.manifest.scripts

C18_Witness ==
    /\ Len(manifestWrites) = 1
    /\ Truthy(pre.manifest.eslintConfig)
    /\ pre.manifest.scripts["lint"] = "eslint ."
    /\ manifest.eslintConfig = "absent"
    /\ ScriptsSet(manifest)
    /\ pc = "exited"

\* C20: the package manager is probed once, before the install command, and
\* never changes afterwards; the uninstall command is a command of the same
\* manager as the install command, also when install has created a lockfile.
C20_ManagerFixed ==
    [][/\ packageManager # "unknown" => packageManager' = packageManager
       /\ packageManager' # packageManager => (pc = "probe" /\ calls' = <<>>)
       /\ \A i \in DOMAIN calls' : calls'[i].program = packageManager'
       /\ Len(calls') = 2 =>
             /\ calls'[1] = InstallCommand(packageManager')
             /\ calls'[2].program = calls'[1].program
             /\ calls'[2].verb = (IF calls'[1].program = "npm"
                                  THEN "uninstall" ELSE "remove")]_vars

C20_Witness ==
    /\ Len(calls) = 2
    /\ "package-lock.json" \in lockfiles \ pre.lockfiles
    /\ packageManager = "npm"
    /\ calls[2].program = calls[1].program

\* The directories among the working directory and its ancestors that hold a
\* package.json.
HoldingDirs == {d \in 0..cwd : hasPackageJson(d)}

\* The nearest of them, the working directory when there is none.
Nearest ==
    IF HoldingDirs = {} THEN cwd
    ELSE CHOOSE d \in HoldingDirs : \A e \in HoldingDirs : e <= d

\* C19: the root locator always terminates, and what it returns is the
\* nearest directory, among the current working directory and its ancestors,
\* that contains package.json, the current working directory when none of
\* them does; it changes nothing on disk.
C19_LocatorReturnsNearest ==
    /\ <>(rootDir # <<>>)
    /\ [](rootDir # <<>> => rootDir = <<Nearest>>)
    /\ [][UNCHANGED disk]_vars

\* What the loop does on a POSIX system: it returns, with the nearest holding
\* directory below the filesystem root, which itself is never examined.
C19_PosixSkipsTheRoot ==
    (platform = "posix" /\ rootDir # <<>>) =>
        rootDir = <<IF HoldingDirs \ {0} = {} THEN cwd
                    ELSE CHOOSE d \in HoldingDirs \ {0} :
                             \A e \in HoldingDirs \ {0} : e <= d>>

\* The loop on a Windows system when nothing holds a package.json: dir stays
\* at the root of the drive and the next iteration starts from the same state.
C19_WindowsLoopsAtRoot ==
    (platform = "win32" /\ HoldingDirs = {}) => rootDir = <<>>

\* C21: the detected set is built by the detection step and no later step
\* changes it; a backup step that completes has copied every detected
\* standalone file that existed when it ran, and a removal step that completes
\* has left none of the detected standalone files in ProjectRoot, whatever
\* another process did to these files in between.
C21_ConfigSetFixed ==
    [][/\ pc # "detect" => configs' = configs
       /\ (pc = "backup" /\ pc' = "probe" /\ HasConfigs(configs)) =>
             Range(backedUp') = {f \in DetectedFiles : files[f] # Absent}
       /\ (pc = "removeFiles" /\ pc' = "summary") =>
             /\ \A f \in DetectedFiles : files'[f] = Absent
             /\ unlinked' = {f \in DetectedFiles : files[f] # Absent}]_vars

C21_Witness ==
    /\ pc = "summary"
    /\ Ran("backup")
    /\ Ran("removeFiles")
    /\ \E f \in unlinked : f \in DetectedFiles /\ f \notin Range(backedUp)

\* Detection has returned its set to main().
Detected == Ran("detect") /\ pc # "detect" /\ "detect" \notin failed

\* The names of a CONFIG_FILES list that existed when the run started.
ExistingOf(list) == {list[i] : i \in {j \in DOMAIN list : pre.files[list[j]] # Absent}}

\* C22: detection returns in the linter list exactly the known ESLint names
\* that exist plus the sentinel iff package.json has an eslintConfig field,
\* in the formatter list exactly the known Prettier names that exist plus the
\* sentinel iff package.json has a prettier field, and changes nothing.
C22_DetectsExactly ==
    Detected =>
        /\ Range(configs.eslint) =
              ExistingOf(CONFIG_FILES.eslint)
              \cup (IF pre.manifest.eslintConfig # "absent" THEN {EslintSentinel} ELSE {})
        /\ Range(configs.prettier) =
              ExistingOf(CONFIG_FILES.prettier)
              \cup (IF pre.manifest.prettier # "absent" THEN {PrettierSentinel} ELSE {})
        /\ pc = "backup" =>
              (files = pre.files /\ manifest = pre.manifest /\ backupFiles = pre.backupFiles)

\* What the code does: the sentinel stands for a field with a truthy value.
C22_DetectsTruthyFields ==
    Detected =>
        /\ Range(configs.eslint) =
              ExistingOf(CONFIG_FILES.eslint)
              \cup (IF Truthy(pre.manifest.eslintConfig) THEN {EslintSentinel} ELSE {})
        /\ Range(configs.prettier) =
              ExistingOf(CONFIG_FILES.prettier)
              \cup (IF Truthy(pre.manifest.prettier) THEN {PrettierSentinel} ELSE {})
        /\ Len(configs.eslint) = Cardinality(Range(configs.eslint))
        /\ Len(configs.prettier) = Cardinality(Range(configs.prettier))
        /\ pc = "backup" =>
              (files = pre.files /\ manifest = pre.manifest /\ backupFiles = pre.backupFiles)

\* C23: the BackupRecord the backup step returns lists exactly the standalone
\* files it copied: no embedded-field sentinel, no detected file that was gone
\* when the step ran, and each listed file is in the backup directory under its
\* own name with the content the original had; the record is not changed later.
C23_BackupRecordExact ==
    [][/\ (pc = "backup" /\ pc' = "probe" /\ HasConfigs(configs)) =>
             /\ \A i \in DOMAIN backedUp' : ~IncludesPackageJson(backedUp'[i])
             /\ Range(backedUp') = {f \in DetectedFiles : files[f] # Absent}
             /\ Len(backedUp') = Cardinality(Range(backedUp'))
             /\ \A f \in Range(backedUp') : backupFiles'[f] = files[f]
             /\ \A f \in AllNames \ Range(backedUp') : backupFiles'[f] = backupFiles[f]
       /\ pc # "backup" => (backedUp' = backedUp /\ backupFiles' = backupFiles)]_vars

C23_Witness ==
    /\ "backed-up" \in report
    /\ \E f \in DetectedFiles : f \notin Range(backedUp)
    /\ \E f \in Range(backedUp) : backupFiles[f] # Absent
    /\ \E i \in DOMAIN configs.eslint : IncludesPackageJson(configs.eslint[i])

\* C24: whenever a legacy config file has been deleted, and so in every
\* terminal state of such a run, install succeeded, biome.json is the default
\* document and package.json has been rewritten with the five biome script
\* entries; a run that stops before the rewrite has deleted no legacy file.
C24_DeletionOnlyAfterMigration ==
    /\ (\E f \in AllNames : pre.files[f] # Absent /\ files[f] = Absent) =>
          /\ "installed" \in report
          /\ calls # <<>> /\ calls[1] = InstallCommand(packageManager)
          /\ "install" \notin failed
          /\ biome = generateBiomeConfig
          /\ Len(manifestWrites) = 1
          /\ manifest.kind = "ok" /\ ScriptsSet(manifest)
    /\ (pc = "exited" /\ manifestWrites = <<>>) => (files = pre.files /\ unlinked = {})

C24_Witness ==
    /\ pc = "exited"
    /\ unlinked # {}
    /\ \E f \in unlinked : files[f] = Absent
    /\ failed = {"removeFiles"}
    /\ ScriptsSet(manifest)

\* C25: the manifest update changes only the five named script entries and
\* the two embedded fields: the dependency blocks and every other script entry
\* are written back as they were read at the start of the step, so the
\* development dependency the install step added is still declared.
C25_UpdateKeepsTheRest ==
    [][(pc = "updateManifest" /\ pc' = "removeDeps") =>
          /\ manifest'.kind = manifest.kind
          /\ manifest'.devDependencies = manifest.devDependencies
          /\ manifest'.dependencies = manifest.dependencies
          /\ manifest'.emptyVersions = manifest.emptyVersions
          /\ \A k \in AllScripts \ ScriptKeys : manifest'.scripts[k] = manifest.scripts[k]
          /\ manifest'.eslintConfig \in {manifest.eslintConfig, "absent"}
          /\ manifest'.prettier \in {manifest.prettier, "absent"}
          /\ BiomePackage \in manifest'.devDependencies]_vars

C25_Witness ==
    /\ "updated-scripts" \in report
    /\ pc = "removeDeps"
    /\ BiomePackage \in manifest.devDependencies
    /\ BiomePackage \notin pre.manifest.devDependencies
    /\ pre.manifest.scripts[OtherScript] = "jest"
    /\ manifest.scripts[OtherScript] = "jest"
    /\ pre.manifest.dependencies # {}

\* C26: over any sequence of runs on the same ProjectRoot a copy present in
\* the backup directory is never overwritten or removed: once a name has a
\* copy, the copy keeps the content it was first written with, also when a
\* legacy file of that name exists again at the next run.
C26_BackupCopiesKept ==
    [][\A f \in AllNames :
          backupFiles[f] # Absent => backupFiles'[f] = backupFiles[f]]_vars

\* What the code keeps: no run removes a copy, and a copy changes only in the
\* backup step, into the content the file of that name has in ProjectRoot.
C26_BackupCopiesNeverRemoved ==
    [][\A f \in AllNames :
          backupFiles[f] # Absent =>
             \/ backupFiles'[f] = backupFiles[f]
             \/ pc = "backup" /\ files[f] # Absent /\ backupFiles'[f] = files[f]]_vars

\* Detection returned embedded configuration only: a sentinel, no file.
OnlyEmbedded == Detected /\ ~NoConfigs(configs) /\ DetectedFiles = {}

\* C27: when the only configuration detected is embedded in package.json,
\* the backup step runs and creates the backup directory but copies nothing,
\* the BackupRecord is empty, the removal step deletes no file, and the
\* manifest update removes the embedded fields while the backup directory
\* holds nothing more than it did before the run.
C27_EmbeddedOnlyHasNoBackup ==
    OnlyEmbedded =>
        /\ (pc \notin {"backup", "exited"} \/ "backed-up" \in report) =>
              (Ran("backup") /\ "backed-up" \in report /\ backupDir)
        /\ backedUp = <<>>
        /\ backupFiles = pre.backupFiles
        /\ unlinked = {} /\ files = pre.files
        /\ "updated-scripts" \in report =>
              /\ manifest.eslintConfig # "truthy" /\ manifest.prettier # "truthy"
              /\ "removed-fields" \in report
              /\ removedFields # <<>>

C27_Witness ==
    /\ OnlyEmbedded
    /\ pc = "exited"
    /\ failed = {}
    /\ ~pre.backupDir /\ backupDir
    /\ pre.manifest.eslintConfig = "truthy" /\ manifest.eslintConfig = "absent"
    /\ \A f \in AllNames : backupFiles[f] = Absent

\* A run whose locals are r has ended at the summary or has aborted.
EndedProperly(r) ==
    r.pc = "exited" =>
        \/ r.exitCode = 0 /\ r.failed \subseteq {"removeDeps"}
              /\ r.steps # <<>> /\ r.steps[Len(r.steps)] = "summary"
        \/ r.exitCode = 1 /\ r.failed # {} /\ "migration-complete" \notin r.report

\* C28: when two runs are interleaved on the same ProjectRoot, every legacy
\* config file deleted by either of them has a copy in the backup directory,
\* with the content the file had, and a run that has ended has ended at the
\* summary or has aborted.
C28_InterleavedRunsKeepBackups ==
    /\ \A f \in AllNames :
          (pre.files[f] # Absent /\ files[f] = Absent) =>
              (backupDir /\ backupFiles[f] = pre.files[f])
    /\ \A f \in unlinked \cup other.unlinked : backupFiles[f] = pre.files[f]
    /\ EndedProperly(Locals)
    /\ EndedProperly(other)

C28_Witness ==
    /\ pc = "exited" /\ other.pc = "exited"
    /\ failed = {} /\ other.failed = {}
    /\ \E f \in DetectedFiles :
          /\ f \notin unlinked
          /\ f \notin Range(backedUp)
          /\ f \in other.unlinked
          /\ files[f] = Absent

\* The parser has read every line of the frontmatter.
Parsed == skill.opens /\ skill.closes /\ vpc \in {"fields", "print", "done", "crashed"}

\* The lines of the frontmatter that are key-value pairs.
KeyLines == {i \in DOMAIN skill.frontmatter : IsKeyLine(skill.frontmatter[i])}

RECURSIVE ItemsBetween(_, _)
\* The array items on the lines from..to of the frontmatter, in order.
ItemsBetween(from, to) ==
    IF from > to THEN <<>>
    ELSE (IF IsArrayItem(skill.frontmatter[from])
          THEN <<ItemOf(skill.frontmatter[from])>> ELSE <<>>)
         \o ItemsBetween(from + 1, to)

\* What the key of key line i stands for: its inline value, or the items that
\* follow the line up to the next key line.
MeaningOf(i) ==
    LET line == skill.frontmatter[i]
        later == {j \in KeyLines : j > i}
        next == IF later = {} THEN Len(skill.frontmatter) + 1
                ELSE CHOOSE j \in later : \A k \in later : j <= k
    IN  IF ValueOf(line) # <<>> THEN String(ValueOf(line))
        ELSE Array(ItemsBetween(i + 1, next - 1))

\* C30: after parsing, the keys of metadata are those of the key lines, and
\* each maps to the inline string of its last line or to the array of exactly
\* the items that follow that line before the next key; an item after a key
\* with an inline value, or before any key, is in no array.
C30_ParserArrays ==
    Parsed =>
        /\ DOMAIN metadata = {KeyOf(skill.frontmatter[i]) : i \in KeyLines}
        /\ \A i \in KeyLines :
              (\A j \in KeyLines :
                   KeyOf(skill.frontmatter[j]) = KeyOf(skill.frontmatter[i]) => j <= i)
              => metadata[KeyOf(skill.frontmatter[i])] = MeaningOf(i)

C30_Witness ==
    /\ Parsed
    /\ Len(skill.frontmatter) = 3
    /\ IsArrayItem(skill.frontmatter[1])
    /\ IsKeyLine(skill.frontmatter[2]) /\ ValueOf(skill.frontmatter[2]) # <<>>
    /\ IsArrayItem(skill.frontmatter[3])
    /\ \A k \in DOMAIN metadata : metadata[k].kind = "string"

\* validate-skill.js has ended.
Ended == vpc \in {"done", "crashed"}

\* The errors of a missing frontmatter delimiter.
DelimiterErrors == {"no-opening-delimiter", "no-closing-delimiter"}

\* C29: the validator ends with status 1 exactly when the file is missing or
\* at least one error was recorded; warnings alone never make it fail; and
\* when a frontmatter delimiter is missing exactly one error is reported and
\* no field is checked.
C29_FailsExactlyOnErrors ==
    Ended =>
        /\ exitStatus = "1" <=> (~skill.exists \/ Len(errors) > 0)
        /\ (skill.exists /\ errors = <<>>) => exitStatus = "0"
        /\ (\E i \in DOMAIN errors : errors[i] \in DelimiterErrors) =>
              (Len(errors) = 1 /\ metadata = <<>> /\ warnings \subseteq {"line-count"})

\* What holds of every run that ends in printResults or at the missing file.
C29_FailsOnErrorsUnlessItThrows ==
    vpc = "done" =>
        /\ exitStatus = "1" <=> (~skill.exists \/ Len(errors) > 0)
        /\ (\E i \in DOMAIN errors : errors[i] \in DelimiterErrors) =>
              (Len(errors) = 1 /\ metadata = <<>> /\ warnings \subseteq {"line-count"})

\* A description given as a list ends the validator in a TypeError.
C29_DescriptionListThrows ==
    (Ended /\ Parsed /\ Has(metadata, "description")
       /\ metadata[<<"description">>].kind = "array") => vpc = "crashed"
====
